---- MODULE Spec2Model ----
(***************************************************************************)
(* Model of the task store of todoApp (main.go): the in-memory TaskStore   *)
(* with its reader/writer lock, the file-backed load/save protocol         *)
(* (write temp file, then rename), and the request handlers that call      *)
(* List, Create, Toggle and Delete concurrently.                           *)
(***************************************************************************)
EXTENDS Integers, Sequences, FiniteSets, TLC

\* ------------------------------------------------------------------------
\* Bounds of the model
\* ------------------------------------------------------------------------

\* Number of request handlers (goroutines) that serve any request at once.
NumProcs == 2

\* Number of further handlers that serve only GET /api/tasks.
NumListers == 2

\* Create is only started while nextID <= MaxID, which caps the id counter.
MaxID == 2

\* Save steps that fail, crashes and failed starts, over a whole run.
MaxFaults == 2

Handlers == 1..NumProcs

Listers == (NumProcs + 1)..(NumProcs + NumListers)

Procs == Handlers \cup Listers

\* Request bodies' titles, as sequences of characters, before trimming.
RawTitles == { <<>>, <<" ">>, <<" ", "a", " ">>, <<"b">> }

\* Values time.Now().UTC() may return (wall clock, seconds).
Times == {1, 2}

\* Ids a PATCH/DELETE request may carry (0 is never the id of a task).
ReqIDs == 0..MaxID

\* Request methods; PUT stands for every method the handlers do not name.
Methods == {"GET", "POST", "PATCH", "DELETE", "PUT"}

\* What may follow /api/tasks/ in a request path, up to the next slash, as
\* characters: nothing, integers, and text that is no integer.
Segments == { <<>>, <<"7">>, <<"-", "1">>, <<"x">>, <<"1", "x">>, <<"-">> }

Digits == {"0", "1", "2", "3", "4", "5", "6", "7", "8", "9"}

\* strconv.Atoi returns no error: an optional sign, then one digit or more.
AtoiOK(s) ==
    LET body == IF s # <<>> /\ s[1] \in {"+", "-"} THEN Tail(s) ELSE s
    IN  /\ body # <<>>
        /\ \A k \in 1..Len(body) : body[k] \in Digits

\* ------------------------------------------------------------------------
\* Task and its JSON form
\* ------------------------------------------------------------------------

\* type Task struct { ID; Title; Done; CreatedAt }
Task(id, title, done, createdAt) ==
    [ID |-> id, Title |-> title, Done |-> done, CreatedAt |-> createdAt]

\* Task{}: the zero value returned next to an error.
ZeroTask == Task(0, <<>>, FALSE, 0)

\* time.Time's JSON form is an RFC 3339 string in UTC ("...Z").
FormatTime(t) == <<t, "Z">>

ParseTime(s) == s[1]

\* The JSON object of one task, keyed by the struct tags.
TaskJSON(t) ==
    [id |-> t.ID, title |-> t.Title, done |-> t.Done,
     createdAt |-> FormatTime(t.CreatedAt)]

TaskFromJSON(o) == Task(o.id, o.title, o.done, ParseTime(o.createdAt))

NoObj == TaskJSON(ZeroTask)

\* The text of a JSON file is a sequence of tokens; a write that fails part
\* way leaves a prefix of the sequence.
Tok(kind, obj) == [tok |-> kind, obj |-> obj]

LBracket == Tok("[", NoObj)

RBracket == Tok("]", NoObj)

Newline == Tok("\n", NoObj)

\* json.Encoder.Encode(s.tasks): the array of objects, then a newline.
Encode(ts) ==
    <<LBracket>> \o [i \in 1..Len(ts) |-> Tok("{}", TaskJSON(ts[i]))]
                 \o <<RBracket, Newline>>

\* Index of the first closing bracket of text, 0 if there is none.
RECURSIVE CloseIndex(_, _)
CloseIndex(text, i) ==
    IF i > Len(text) THEN 0
    ELSE IF text[i].tok = "]" THEN i
    ELSE CloseIndex(text, i + 1)

\* json.Decoder.Decode(&loaded) succeeds iff the text starts with one
\* complete array of objects; what follows the array is not read.
DecodeOK(text) ==
    /\ Len(text) >= 2
    /\ text[1].tok = "["
    /\ CloseIndex(text, 2) # 0
    /\ \A i \in 2..(CloseIndex(text, 2) - 1) : text[i].tok = "{}"

Decode(text) ==
    [i \in 1..(CloseIndex(text, 2) - 2) |-> TaskFromJSON(text[i + 1].obj)]

\* strings.TrimSpace on a sequence of characters.
RECURSIVE TrimLeft(_)
TrimLeft(s) ==
    IF s # <<>> /\ Head(s) = " " THEN TrimLeft(Tail(s)) ELSE s

RECURSIVE TrimRight(_)
TrimRight(s) ==
    IF s # <<>> /\ s[Len(s)] = " "
    THEN TrimRight(SubSeq(s, 1, Len(s) - 1))
    ELSE s

\* The title taken as it came, spaces included.
KeepSpace(s) == s

TrimSpace(s) == TrimRight(TrimLeft(s))

\* ------------------------------------------------------------------------
\* Files
\* ------------------------------------------------------------------------

File(text) == [exists |-> TRUE, text |-> text]

NoFile == [exists |-> FALSE, text |-> <<>>]

\* s.dataPath()
dataPath == "tasks.json"

\* save that writes the data file in place.
tmpPathInPlace == "tasks.json"

\* s.dataPath() + ".tmp"
tmpPath == "tasks.json.tmp"

Paths == {dataPath, tmpPath}

\* save without the rename: the data file stays as it was.
RenameSkipped(f, from, to) == f

\* os.Rename(from, to): the file at from replaces the file at to.
Rename(f, from, to) ==
    IF from = to THEN f
    ELSE [f EXCEPT ![to] = f[from], ![from] = NoFile]

\* A removal that never removes.
RemoveNot(f, path, removed) == f

\* _ = os.Remove(path): best effort, the error is dropped.
Remove(f, path, removed) ==
    IF removed THEN [f EXCEPT ![path] = NoFile] ELSE f

\* ------------------------------------------------------------------------
\* The store's in-memory operations
\* ------------------------------------------------------------------------

\* The loop "for i, t := range s.tasks { if t.ID == id": the first index
\* whose task has the id, 0 if there is none.
RECURSIVE IndexFrom(_, _, _)
IndexFrom(ts, id, i) ==
    IF i > Len(ts) THEN 0
    ELSE IF ts[i].ID = id THEN i
    ELSE IndexFrom(ts, id, i + 1)

\* A search that settles for the first task when none has the id.
IndexOrFirst(ts, id) ==
    IF IndexFrom(ts, id, 1) = 0 /\ ts # <<>> THEN 1
    ELSE IndexFrom(ts, id, 1)

IndexOf(ts, id) == IndexFrom(ts, id, 1)

\* task := Task{ID: s.nextID, Title: title, Done: false, CreatedAt: now}
NewTask(id, title, now) == Task(id, title, FALSE, now)

\* Create without the increment.
KeepNextID(n) == n

\* s.nextID++
IncNextID(n) == n + 1

\* Create that puts the new task first.
PrependTask(ts, t) == <<t>> \o ts

\* s.tasks = append(s.tasks, task)
AppendTask(ts, t) == Append(ts, t)

\* Toggle that only ever marks the task done.
MarkDoneAt(ts, i) == [ts EXCEPT ![i].Done = TRUE]

\* s.tasks[i].Done = !s.tasks[i].Done
ToggleAt(ts, i) == [ts EXCEPT ![i].Done = ~@]

\* Delete that cuts the sequence off at the task.
TruncateAt(ts, i) == SubSeq(ts, 1, i - 1)

\* s.tasks = append(s.tasks[:i], s.tasks[i+1:]...)
RemoveAt(ts, i) == SubSeq(ts, 1, i - 1) \o SubSeq(ts, i + 1, Len(ts))

\* maxID of load: the largest loaded id, at least 0.
RECURSIVE MaxLoadedID(_)
MaxLoadedID(ts) ==
    IF ts = <<>> THEN 0
    ELSE LET m == MaxLoadedID(Tail(ts))
         IN  IF Head(ts).ID > m THEN Head(ts).ID ELSE m

\* load that counts the tasks instead of taking the largest id.
LoadNextIDByCount(ts) == Len(ts) + 1

\* s.nextID = maxID + 1; if s.nextID < 1 { s.nextID = 1 }
LoadNextID(ts) ==
    IF MaxLoadedID(ts) + 1 < 1 THEN 1 ELSE MaxLoadedID(ts) + 1

\* ------------------------------------------------------------------------
\* State
\* ------------------------------------------------------------------------

VARIABLES
    tasks,      \* TaskStore.tasks
    nextID,     \* TaskStore.nextID
    fs,         \* the data directory: path -> file
    boot,       \* "serving", "stopped", "crashed" (killed) or "fatal" (load failed)
    wowner,     \* RWMutex: the writer that holds or has announced the lock, 0 if none
    readers,    \* RWMutex: the handlers holding the read lock
    rwait,      \* RWMutex: the handlers blocked in RLock behind a writer
    pc,         \* per handler: its position
    req,        \* per handler: the operation it runs and its arguments
    ret,        \* per handler: its locals and return values
    held,       \* <<the slice a GET handler got from List and still uses>>
    faults,     \* the number of injected I/O failures and crashes so far
    lastSaved,  \* history: <<the tasks of the last save whose rename succeeded>>
    createdIds, \* history: ids returned by the successful Creates of this store
    assigned,   \* history: every id a successful Create of any run has returned
    lastToggle, \* history: <<the last change of this store, if it was a Toggle>>
    deleted     \* history: the ids Delete has removed from this store

vars == <<tasks, nextID, fs, boot, wowner, readers, rwait, pc, req, ret,
          held, faults, lastSaved, createdIds, assigned, lastToggle, deleted>>

store == <<tasks, nextID>>

mutex == <<wowner, readers, rwait>>

history ==
    <<held, faults, lastSaved, createdIds, assigned, lastToggle, deleted>>

changes == <<held, lastToggle, deleted>>

\* An I/O call fails, or the process is killed: one more fault.
Fault ==
    /\ faults < MaxFaults
    /\ faults' = faults + 1

\* A step of save fails, and the removal of the temp file after it may
\* fail as well: one fault, or two.
FaultThenRemove(removed) ==
    IF removed THEN Fault
    ELSE /\ faults + 1 < MaxFaults
         /\ faults' = faults + 2

\* A request: the method, the path pattern that matched and the segment
\* after /api/tasks/, then the store operation it calls and its arguments.
NoReq ==
    [method |-> "", path |-> "", seg |-> <<>>,
     op |-> "none", id |-> 0, title |-> <<>>, raw |-> <<>>]

\* shared: the slice out has the backing array of s.tasks.
NoRet == [task |-> ZeroTask, out |-> <<>>, shared |-> FALSE, err |-> ""]

\* The patterns of the two API handlers.
TasksPath == "/api/tasks"

TaskPath == "/api/tasks/"

ErrTitle == "title is required"

ErrNotFound == "task not found"

\* NewTaskStore on a fresh data directory: no data file, an empty store.
Init ==
    /\ tasks = <<>>
    /\ nextID = 1
    /\ fs = [p \in Paths |-> NoFile]
    /\ boot = "serving"
    /\ wowner = 0
    /\ readers = {}
    /\ rwait = {}
    /\ pc = [p \in Procs |-> "idle"]
    /\ req = [p \in Procs |-> NoReq]
    /\ ret = [p \in Procs |-> NoRet]
    /\ held = <<>>
    /\ faults = 0
    /\ lastSaved = <<>>
    /\ createdIds = <<>>
    /\ assigned = {}
    /\ lastToggle = <<>>
    /\ deleted = {}

\* ------------------------------------------------------------------------
\* Requests arrive
\* ------------------------------------------------------------------------

\* GET /api/tasks calls store.List().
ListCall(p) ==
    /\ boot = "serving"
    /\ pc[p] = "idle"
    /\ req' = [req EXCEPT ![p] = [NoReq EXCEPT !.method = "GET", !.path = TasksPath, !.op = "List"]]
    /\ pc' = [pc EXCEPT ![p] = "RLock"]
    /\ UNCHANGED <<store, fs, boot, mutex, ret, history>>

\* POST /api/tasks calls store.Create(title): the title is trimmed and an
\* empty one is refused before the lock is taken.
CreateCall(p, title) ==
    /\ boot = "serving"
    /\ pc[p] = "idle"
    /\ nextID <= MaxID
    /\ req' = [req EXCEPT ![p] =
                 [NoReq EXCEPT !.method = "POST", !.path = TasksPath,
                               !.op = "Create",
                               !.title = TrimSpace(title), !.raw = title]]
    /\ IF TrimSpace(title) = <<>>
       THEN /\ ret' = [ret EXCEPT ![p].err = ErrTitle]
            /\ pc' = [pc EXCEPT ![p] = "ret"]
       ELSE /\ ret' = ret
            /\ pc' = [pc EXCEPT ![p] = "Lock"]
    /\ UNCHANGED <<store, fs, boot, mutex, history>>

\* PATCH /api/tasks/{id} calls store.Toggle(id).
ToggleCall(p, id) ==
    /\ boot = "serving"
    /\ pc[p] = "idle"
    /\ req' = [req EXCEPT ![p] = [NoReq EXCEPT !.method = "PATCH", !.path = TaskPath,
                               !.op = "Toggle", !.id = id]]
    /\ pc' = [pc EXCEPT ![p] = "Lock"]
    /\ UNCHANGED <<store, fs, boot, mutex, ret, history>>

\* DELETE /api/tasks/{id} calls store.Delete(id).
DeleteCall(p, id) ==
    /\ boot = "serving"
    /\ pc[p] = "idle"
    /\ req' = [req EXCEPT ![p] = [NoReq EXCEPT !.method = "DELETE", !.path = TaskPath,
                               !.op = "Delete", !.id = id]]
    /\ pc' = [pc EXCEPT ![p] = "Lock"]
    /\ UNCHANGED <<store, fs, boot, mutex, ret, history>>

\* /api/tasks, the requests that end without a call of the store: a POST
\* whose body cannot be read or is no JSON, and any method other than GET
\* and POST.
TasksRefused(p, method) ==
    /\ boot = "serving"
    /\ pc[p] = "idle"
    /\ method # "GET"
    /\ req' = [req EXCEPT ![p] =
                 [NoReq EXCEPT !.method = method, !.path = TasksPath,
                               !.op = "refused"]]
    /\ ret' = [ret EXCEPT ![p].err =
                 IF method = "POST" THEN "invalid json"
                 ELSE "method not allowed"]
    /\ pc' = [pc EXCEPT ![p] = "ret"]
    /\ UNCHANGED <<store, fs, boot, mutex, history>>

\* /api/tasks/{seg}, the requests that end without a call of the store: no
\* segment, then a segment that is no integer, then any method other than
\* PATCH and DELETE, tested in this order.
TaskRefused(p, method, seg) ==
    /\ boot = "serving"
    /\ pc[p] = "idle"
    /\ seg = <<>> \/ ~AtoiOK(seg) \/ method \notin {"PATCH", "DELETE"}
    /\ req' = [req EXCEPT ![p] =
                 [NoReq EXCEPT !.method = method, !.path = TaskPath,
                               !.seg = seg, !.op = "refused"]]
    /\ ret' = [ret EXCEPT ![p].err =
                 IF seg = <<>> THEN "404 page not found"
                 ELSE IF ~AtoiOK(seg) THEN "invalid task id"
                 ELSE "method not allowed"]
    /\ pc' = [pc EXCEPT ![p] = "ret"]
    /\ UNCHANGED <<store, fs, boot, mutex, history>>

\* The status of the response to the request of p, once the store has
\* returned or the request was refused.
Status(p) ==
    LET r == req[p]
        failed == ret[p].err # ""
    IN  CASE r.op = "List" -> 200
          [] r.op = "Create" -> IF failed THEN 400 ELSE 201
          [] r.op = "Toggle" -> IF failed THEN 404 ELSE 200
          [] r.op = "Delete" -> IF failed THEN 404 ELSE 204
          [] r.op = "refused" /\ r.path = TasksPath ->
               IF r.method = "POST" THEN 400 ELSE 405
          [] r.op = "refused" /\ r.path = TaskPath ->
               IF r.seg = <<>> THEN 404
               ELSE IF ~AtoiOK(r.seg) THEN 400
               ELSE 405
          [] OTHER -> 0

\* A response that names the methods of /api/tasks on every 405.
AllowOfTasks(p) ==
    IF Status(p) = 405 THEN <<"GET", "POST">> ELSE <<>>

\* The Allow header of the response to the request of p, empty if not set.
Allow(p) ==
    IF Status(p) # 405 THEN <<>>
    ELSE IF req[p].path = TasksPath THEN <<"GET", "POST">>
    ELSE <<"PATCH", "DELETE">>

\* ------------------------------------------------------------------------
\* sync.RWMutex
\* ------------------------------------------------------------------------

\* List taking the exclusive lock: it also waits for the readers to leave.
RLockExclusive(p) ==
    /\ pc[p] = "RLock"
    /\ IF wowner = 0 /\ readers = {}
       THEN /\ readers' = readers \cup {p}
            /\ rwait' = rwait
            /\ pc' = [pc EXCEPT ![p] = "List"]
       ELSE /\ rwait' = rwait \cup {p}
            /\ readers' = readers
            /\ pc' = [pc EXCEPT ![p] = "RLockWait"]
    /\ UNCHANGED <<store, fs, boot, wowner, req, ret, history>>

\* s.mu.RLock(): a reader enters at once unless a writer holds the lock or
\* has announced itself; then it blocks until that writer unlocks.
RLock(p) ==
    /\ pc[p] = "RLock"
    /\ IF wowner = 0
       THEN /\ readers' = readers \cup {p}
            /\ rwait' = rwait
            /\ pc' = [pc EXCEPT ![p] = "List"]
       ELSE /\ rwait' = rwait \cup {p}
            /\ readers' = readers
            /\ pc' = [pc EXCEPT ![p] = "RLockWait"]
    /\ UNCHANGED <<store, fs, boot, wowner, req, ret, history>>

\* s.mu.Lock(), first half: writers exclude each other, and the one that
\* gets in announces itself, which turns new readers away.
Lock(p) ==
    /\ pc[p] = "Lock"
    /\ wowner = 0
    /\ wowner' = p
    /\ pc' = [pc EXCEPT ![p] = "LockWait"]
    /\ UNCHANGED <<store, fs, boot, readers, rwait, req, ret, history>>

\* A writer that takes the read lock instead: it does not wait for readers.
LockAcquiredShared(p) ==
    /\ pc[p] = "LockWait"
    /\ wowner = p
    /\ pc' = [pc EXCEPT ![p] = req[p].op]
    /\ UNCHANGED <<store, fs, boot, mutex, req, ret, history>>

\* s.mu.Lock(), second half: the writer waits for the active readers to leave.
LockAcquired(p) ==
    /\ pc[p] = "LockWait"
    /\ wowner = p
    /\ readers = {}
    /\ pc' = [pc EXCEPT ![p] = req[p].op]
    /\ UNCHANGED <<store, fs, boot, mutex, req, ret, history>>

\* An unlock of the writer that leaves the readers blocked behind it asleep.
ReleaseNoWake(p) ==
    IF wowner = p
    THEN /\ wowner' = 0
         /\ readers' = readers
         /\ rwait' = rwait
         /\ pc' = [pc EXCEPT ![p] = "idle"]
    ELSE /\ wowner' = wowner
         /\ readers' = readers \ {p}
         /\ rwait' = rwait
         /\ pc' = [pc EXCEPT ![p] = "idle"]

\* defer s.mu.Unlock() / defer s.mu.RUnlock(), as the handler p returns: a
\* writer's unlock lets in every reader that was blocked behind it.
Release(p) ==
    IF wowner = p
    THEN /\ wowner' = 0
         /\ readers' = rwait
         /\ rwait' = {}
         /\ pc' = [q \in Procs |->
                     IF q = p THEN "idle"
                     ELSE IF q \in rwait THEN "List"
                     ELSE pc[q]]
    ELSE /\ wowner' = wowner
         /\ readers' = readers \ {p}
         /\ rwait' = rwait
         /\ pc' = [pc EXCEPT ![p] = "idle"]

\* ------------------------------------------------------------------------
\* The bodies of List, Create, Toggle and Delete, run under the lock
\* ------------------------------------------------------------------------

\* return Task{}, err
Fail(p, msg) ==
    /\ ret' = [ret EXCEPT ![p] = [NoRet EXCEPT !.err = msg]]
    /\ pc' = [pc EXCEPT ![p] = "ret"]

\* A List that returns s.tasks itself.
ListBodyNoCopy(p) ==
    /\ pc[p] = "List"
    /\ ret' = [ret EXCEPT ![p].out = tasks, ![p].shared = TRUE]
    /\ pc' = [pc EXCEPT ![p] = "ret"]
    /\ UNCHANGED <<store, fs, boot, mutex, req, history>>

\* out := make([]Task, len(s.tasks)); copy(out, s.tasks); return out: the
\* elements are copied into a backing array of their own.
ListBody(p) ==
    /\ pc[p] = "List"
    /\ ret' = [ret EXCEPT ![p].out = tasks, ![p].shared = FALSE]
    /\ pc' = [pc EXCEPT ![p] = "ret"]
    /\ UNCHANGED <<store, fs, boot, mutex, req, history>>

\* What the slice h shows once s.tasks has become ts by a write into its
\* backing array: a slice with an array of its own shows what it did, a
\* slice with the array of s.tasks shows the new elements at its indexes.
Seen(h, ts) ==
    IF h = <<>> \/ ~h[1].shared THEN h
    ELSE << [h[1] EXCEPT !.seq =
               [i \in 1..Len(@) |-> IF i <= Len(ts) THEN ts[i] ELSE @[i]]] >>

\* The GET handler takes the slice that List has returned, to encode it in
\* the response after the read lock is released.
Hold(p) ==
    /\ pc[p] = "ret"
    /\ req[p].op = "List"
    /\ held' = <<[seq |-> ret[p].out, shared |-> ret[p].shared]>>
    /\ held' # held
    /\ UNCHANGED <<store, fs, boot, mutex, pc, req, ret, faults, lastSaved,
                   createdIds, assigned, lastToggle, deleted>>

\* The holder of the slice overwrites one of its elements: a write into
\* the backing array of the slice.
Scribble ==
    /\ held # <<>>
    /\ \E i \in 1..Len(held[1].seq) :
         /\ held[1].seq[i] # ZeroTask
         /\ held' = <<[held[1] EXCEPT !.seq[i] = ZeroTask]>>
         /\ tasks' = IF held[1].shared /\ i <= Len(tasks)
                     THEN [tasks EXCEPT ![i] = ZeroTask]
                     ELSE tasks
    /\ UNCHANGED <<nextID, fs, boot, mutex, pc, req, ret, faults, lastSaved,
                   createdIds, assigned, lastToggle, deleted>>

\* Create after the lock: build the task, bump nextID, append, then save.
CreateBody(p, now) ==
    /\ pc[p] = "Create"
    /\ LET task == NewTask(nextID, req[p].title, now)
       IN  /\ nextID' = IncNextID(nextID)
           /\ tasks' = AppendTask(tasks, task)
           /\ ret' = [ret EXCEPT ![p].task = task]
    /\ pc' = [pc EXCEPT ![p] = "save"]
    /\ lastToggle' = <<>>
    /\ held' = Seen(held, tasks')
    /\ UNCHANGED <<fs, boot, mutex, req, faults, lastSaved, createdIds,
                   assigned, deleted>>

\* History of a Toggle of the task id: the tasks before it, and whether it
\* is the first or the second Toggle of that task in a row.
Toggled(id) ==
    [id |-> id, before |-> tasks,
     n |-> IF lastToggle # <<>> /\ lastToggle[1].id = id /\ lastToggle[1].n = 1
           THEN 2 ELSE 1]

\* A Toggle that flips the done flag of every task.
ToggleBodyAll(p) ==
    /\ pc[p] = "Toggle"
    /\ LET i == IndexOf(tasks, req[p].id)
       IN  IF i = 0
           THEN /\ Fail(p, ErrNotFound)
                /\ UNCHANGED <<tasks, lastToggle>>
           ELSE /\ tasks' = [j \in 1..Len(tasks) |->
                               [tasks[j] EXCEPT !.Done = ~@]]
                /\ pc' = [pc EXCEPT ![p] = "save"]
                /\ ret' = ret
                /\ lastToggle' = <<Toggled(req[p].id)>>
    /\ held' = Seen(held, tasks')
    /\ UNCHANGED <<nextID, fs, boot, mutex, req, faults, lastSaved,
                   createdIds, assigned, deleted>>

\* Toggle after the lock: flip the first task with the id, then save; not
\* found if no task has it.
ToggleBody(p) ==
    /\ pc[p] = "Toggle"
    /\ LET i == IndexOf(tasks, req[p].id)
       IN  IF i = 0
           THEN /\ Fail(p, ErrNotFound)
                /\ UNCHANGED <<tasks, lastToggle>>
           ELSE /\ tasks' = ToggleAt(tasks, i)
                /\ pc' = [pc EXCEPT ![p] = "save"]
                /\ ret' = ret
                /\ lastToggle' = <<Toggled(req[p].id)>>
    /\ held' = Seen(held, tasks')
    /\ UNCHANGED <<nextID, fs, boot, mutex, req, faults, lastSaved,
                   createdIds, assigned, deleted>>

\* Delete after the lock: cut the first task with the id out, then save; not
\* found if no task has it.
DeleteBody(p) ==
    /\ pc[p] = "Delete"
    /\ LET i == IndexOf(tasks, req[p].id)
       IN  IF i = 0
           THEN /\ Fail(p, ErrNotFound)
                /\ UNCHANGED <<tasks, lastToggle, deleted>>
           ELSE /\ tasks' = RemoveAt(tasks, i)
                /\ pc' = [pc EXCEPT ![p] = "save"]
                /\ ret' = ret
                /\ lastToggle' = <<>>
                /\ deleted' = deleted \cup {req[p].id}
    /\ held' = Seen(held, tasks')
    /\ UNCHANGED <<nextID, fs, boot, mutex, req, faults, lastSaved,
                   createdIds, assigned>>

\* ------------------------------------------------------------------------
\* save, step by step
\* ------------------------------------------------------------------------

\* A save that, when the temp file cannot be created, puts the tasks of the
\* last completed save back in memory.
SaveCreateTempRollback(p) ==
    /\ pc[p] = "save"
    /\ \/ /\ fs' = [fs EXCEPT ![tmpPath] = File(<<>>)]
          /\ pc' = [pc EXCEPT ![p] = "encode"]
          /\ ret' = ret
          /\ faults' = faults
          /\ tasks' = tasks
       \/ /\ Fail(p, "create temp file")
          /\ Fault
          /\ fs' = fs
          /\ tasks' = IF lastSaved = <<>> THEN <<>> ELSE lastSaved[1]
    /\ UNCHANGED <<nextID, boot, mutex, req, lastSaved, createdIds, assigned, changes>>

\* f, err := os.Create(tmpPath): an empty temp file, or an error.
SaveCreateTemp(p) ==
    /\ pc[p] = "save"
    /\ \/ /\ fs' = [fs EXCEPT ![tmpPath] = File(<<>>)]
          /\ pc' = [pc EXCEPT ![p] = "encode"]
          /\ ret' = ret
          /\ faults' = faults
       \/ /\ Fail(p, "create temp file")
          /\ Fault
          /\ fs' = fs
    /\ UNCHANGED <<store, boot, mutex, req, lastSaved, createdIds, assigned, changes>>

\* enc.Encode(s.tasks): the whole text is written, or a write fails after a
\* prefix of it and the temp file is closed and removed (best effort).
SaveEncode(p) ==
    /\ pc[p] = "encode"
    /\ \/ /\ fs' = [fs EXCEPT ![tmpPath] = File(Encode(tasks))]
          /\ pc' = [pc EXCEPT ![p] = "close"]
          /\ ret' = ret
          /\ faults' = faults
       \/ /\ \E n \in 0..(Len(Encode(tasks)) - 1), removed \in BOOLEAN :
                /\ fs' = Remove([fs EXCEPT ![tmpPath] =
                                   File(SubSeq(Encode(tasks), 1, n))],
                                tmpPath, removed)
                /\ FaultThenRemove(removed)
          /\ Fail(p, "encode tasks")
    /\ UNCHANGED <<store, boot, mutex, req, lastSaved, createdIds, assigned, changes>>

\* f.Close(): on an error the temp file is removed (best effort).
SaveClose(p) ==
    /\ pc[p] = "close"
    /\ \/ /\ fs' = fs
          /\ pc' = [pc EXCEPT ![p] = "rename"]
          /\ ret' = ret
          /\ faults' = faults
       \/ /\ \E removed \in BOOLEAN :
                /\ fs' = Remove(fs, tmpPath, removed)
                /\ FaultThenRemove(removed)
          /\ Fail(p, "close temp file")
    /\ UNCHANGED <<store, boot, mutex, req, lastSaved, createdIds, assigned, changes>>

\* What the operation returns once save has returned nil.
Result(p) ==
    CASE req[p].op = "Create" -> ret[p].task
      [] req[p].op = "Toggle" -> tasks[IndexOf(tasks, req[p].id)]
      [] OTHER -> ZeroTask

\* os.Rename(tmpPath, s.dataPath()): the temp file replaces the data file in
\* one step; on an error the temp file is removed (best effort).
SaveRename(p) ==
    /\ pc[p] = "rename"
    /\ \/ /\ fs' = Rename(fs, tmpPath, dataPath)
          /\ ret' = [ret EXCEPT ![p].task = Result(p)]
          /\ faults' = faults
          /\ lastSaved' = <<tasks>>
          /\ pc' = [pc EXCEPT ![p] = "ret"]
       \/ /\ \E removed \in BOOLEAN :
                /\ fs' = Remove(fs, tmpPath, removed)
                /\ FaultThenRemove(removed)
          /\ Fail(p, "rename temp file")
          /\ lastSaved' = lastSaved
    /\ UNCHANGED <<store, boot, mutex, req, createdIds, assigned, changes>>

\* The operation returns to its handler; the deferred unlock runs.
Return(p) ==
    /\ pc[p] = "ret"
    /\ Release(p)
    /\ createdIds' =
         IF req[p].op = "Create" /\ ret[p].err = ""
         THEN Append(createdIds, ret[p].task.ID)
         ELSE createdIds
    /\ assigned' =
         IF req[p].op = "Create" /\ ret[p].err = ""
         THEN assigned \cup {ret[p].task.ID}
         ELSE assigned
    /\ req' = [req EXCEPT ![p] = NoReq]
    /\ ret' = [ret EXCEPT ![p] = NoRet]
    /\ UNCHANGED <<store, fs, boot, faults, lastSaved, changes>>

\* ------------------------------------------------------------------------
\* The process stops and starts
\* ------------------------------------------------------------------------

\* The process is killed at any point: memory, the lock and every request in
\* flight are gone, the files stay as they are.
Crash ==
    /\ boot = "serving"
    /\ Fault
    /\ boot' = "crashed"
    /\ tasks' = <<>>
    /\ nextID' = 1
    /\ wowner' = 0
    /\ readers' = {}
    /\ rwait' = {}
    /\ pc' = [p \in Procs |-> "idle"]
    /\ req' = [p \in Procs |-> NoReq]
    /\ ret' = [p \in Procs |-> NoRet]
    /\ createdIds' = <<>>
    /\ lastToggle' = <<>>
    /\ deleted' = {}
    /\ held' = <<>>
    /\ UNCHANGED <<fs, lastSaved, assigned>>

\* A start that takes a data file it cannot decode for an empty store.
StartLenient ==
    /\ boot # "serving"
    /\ \/ /\ Fault
          /\ boot' = "fatal"
          /\ UNCHANGED store
       \/ /\ ~fs[dataPath].exists \/ ~DecodeOK(fs[dataPath].text)
          /\ boot' = "serving"
          /\ UNCHANGED <<store, faults>>
       \/ /\ fs[dataPath].exists
          /\ DecodeOK(fs[dataPath].text)
          /\ tasks' = Decode(fs[dataPath].text)
          /\ nextID' = LoadNextID(Decode(fs[dataPath].text))
          /\ boot' = "serving"
          /\ faults' = faults
    /\ UNCHANGED <<fs, mutex, pc, req, ret, lastSaved, createdIds, assigned, changes>>

\* main: NewTaskStore("data") and load. A failing MkdirAll or Open, or a
\* data file that does not decode, ends in log.Fatalf; an absent data file
\* gives the empty store; otherwise the store holds the decoded tasks.
Start ==
    /\ boot # "serving"
    /\ \/ /\ Fault
          /\ boot' = "fatal"
          /\ UNCHANGED store
       \/ /\ ~fs[dataPath].exists
          /\ boot' = "serving"
          /\ UNCHANGED <<store, faults>>
       \/ /\ fs[dataPath].exists
          /\ ~DecodeOK(fs[dataPath].text)
          /\ boot' = "fatal"
          /\ UNCHANGED <<store, faults>>
       \/ /\ fs[dataPath].exists
          /\ DecodeOK(fs[dataPath].text)
          /\ tasks' = Decode(fs[dataPath].text)
          /\ nextID' = LoadNextID(Decode(fs[dataPath].text))
          /\ boot' = "serving"
          /\ faults' = faults
    /\ UNCHANGED <<fs, mutex, pc, req, ret, lastSaved, createdIds, assigned, changes>>

\* The handlers in P serve any request and those in L only GET /api/tasks,
\* with titles, clock readings and ids from the given sets.
Serve(P, L, titles, times, ids) ==
    \/ \E p \in P \cup L : ListCall(p)
    \/ \E p \in P, title \in titles : CreateCall(p, title)
    \/ \E p \in P, id \in ids : ToggleCall(p, id)
    \/ \E p \in P, id \in ids : DeleteCall(p, id)
    \/ \E p \in P \cup L : RLock(p)
    \/ \E p \in P : Lock(p)
    \/ \E p \in P : LockAcquired(p)
    \/ \E p \in P \cup L : ListBody(p)
    \/ \E p \in P, now \in times : CreateBody(p, now)
    \/ \E p \in P : ToggleBody(p)
    \/ \E p \in P : DeleteBody(p)
    \/ \E p \in P : SaveCreateTemp(p)
    \/ \E p \in P : SaveEncode(p)
    \/ \E p \in P : SaveClose(p)
    \/ \E p \in P : SaveRename(p)
    \/ \E p \in P \cup L : Return(p)

\* One request at a time, over all titles, clock readings and ids, in a
\* process that may be killed and started again.
Next ==
    \/ Serve({1}, {}, RawTitles, Times, ReqIDs)
    \/ Crash
    \/ Start

Spec == Init /\ [][Next]_vars

\* The titles, the clock and the ids of the concurrent specifications.
FewTitles == { <<" ">>, <<"b">> }

OneTime == {1}

OneID == {1}

\* Every handler at once, in one run of the process.
NextConc == Serve(Handlers, {}, FewTitles, OneTime, OneID)

SpecConc == Init /\ [][NextConc]_vars

\* A step of the handler p inside a store operation, from the request for
\* the lock to the return.
Step(p) ==
    \/ RLock(p)
    \/ Lock(p)
    \/ LockAcquired(p)
    \/ ListBody(p)
    \/ \E now \in OneTime : CreateBody(p, now)
    \/ ToggleBody(p)
    \/ DeleteBody(p)
    \/ SaveCreateTemp(p)
    \/ SaveEncode(p)
    \/ SaveClose(p)
    \/ SaveRename(p)
    \/ Return(p)

\* The scheduler runs every goroutine that can run, every file operation
\* returns, and a goroutine that waits in Lock behind other writers gets
\* the mutex in the end (sync.Mutex hands it over in arrival order once a
\* waiter has waited for long). Requests need not arrive.
Fairness ==
    \A p \in Handlers :
        /\ WF_vars(Step(p))
        /\ SF_vars(Lock(p))

SpecFair == Init /\ [][NextConc]_vars /\ Fairness

\* One handler for any request next to the handlers that only list.
NextLock == Serve({1}, Listers, FewTitles, OneTime, OneID)

SpecLock == Init /\ [][NextLock]_vars

\* One handler, and the slice a List has returned in the hands of its
\* caller.
NextSnap ==
    \/ Serve({1}, {}, FewTitles, OneTime, OneID)
    \/ Hold(1)
    \/ Scribble

SpecSnap == Init /\ [][NextSnap]_vars

\* One handler, with the requests that the handlers refuse before they call
\* the store.
NextHttp ==
    \/ Serve({1}, {}, FewTitles, OneTime, ReqIDs)
    \/ \E method \in Methods : TasksRefused(1, method)
    \/ \E method \in Methods, seg \in Segments : TaskRefused(1, method, seg)

SpecHttp == Init /\ [][NextHttp]_vars

\* Task sequences a data file found at the start may hold.
StoredInputs ==
    { <<>>,
      <<Task(1, <<"b">>, TRUE, 1)>>,
      <<Task(2, <<"a">>, FALSE, 2), Task(1, <<"b">>, TRUE, 1)>> }

\* The files a process may find when it starts: no data file, or a data
\* file that holds any prefix of the encoding of a task sequence.
FoundFiles ==
    { [p \in Paths |-> NoFile] } \cup
    UNION { { [p \in Paths |->
                 IF p = dataPath THEN File(SubSeq(Encode(ts), 1, n))
                 ELSE NoFile] : n \in 0..Len(Encode(ts)) } :
            ts \in StoredInputs }

\* Before the first start of the process, over any of these files.
InitLoad ==
    /\ tasks = <<>>
    /\ nextID = 1
    /\ fs \in FoundFiles
    /\ boot = "stopped"
    /\ wowner = 0
    /\ readers = {}
    /\ rwait = {}
    /\ pc = [p \in Procs |-> "idle"]
    /\ req = [p \in Procs |-> NoReq]
    /\ ret = [p \in Procs |-> NoRet]
    /\ held = <<>>
    /\ faults = 0
    /\ lastSaved = <<>>
    /\ createdIds = <<>>
    /\ assigned = {}
    /\ lastToggle = <<>>
    /\ deleted = {}

\* The process starts, as often as it takes, and serves one request at a
\* time once it has loaded the data file.
NextLoad ==
    \/ Start
    \/ Serve({1}, {}, FewTitles, OneTime, OneID)

SpecLoad == InitLoad /\ [][NextLoad]_vars

\* ------------------------------------------------------------------------
\* Properties
\* ------------------------------------------------------------------------

Mutating == {"Create", "Toggle", "Delete"}

\* The handler p is about to return from a mutating operation with success.
ReturnsOK(p) ==
    /\ pc[p] = "ret"
    /\ req[p].op \in Mutating
    /\ ret[p].err = ""

\* The handler p is inside the locked section of a mutating operation.
InWrite(p) ==
    /\ req[p].op \in Mutating
    /\ \/ pc[p] \in {"Create", "Toggle", "Delete",
                     "save", "encode", "close", "rename"}
       \/ pc[p] = "ret" /\ ret[p].err # ErrTitle

\* The handler p is inside the locked section of List.
InRead(p) ==
    /\ req[p].op = "List"
    /\ pc[p] \in {"List", "ret"}

Ids(ts) == [i \in 1..Len(ts) |-> ts[i].ID]

\* C1: the ids returned by the successful Creates of one store are strictly
\* increasing in the order the Creates held the lock, so none is returned
\* twice, also across deletions and with concurrent Creates; and the ids of
\* the tasks in the store are pairwise distinct in every reachable state.
C1_IdsIncreasingDistinct ==
    /\ \A i, j \in 1..Len(createdIds) : i < j => createdIds[i] < createdIds[j]
    /\ \A i, j \in 1..Len(tasks) : i # j => tasks[i].ID # tasks[j].ID

\* Task 1 was created and deleted, a second Create returns id 2 while a
\* third, concurrent Create waits for the lock.
C1_Witness ==
    /\ createdIds = <<1>>
    /\ Ids(tasks) = <<2>>
    /\ \E p, q \in Procs :
         /\ p # q
         /\ ReturnsOK(p) /\ req[p].op = "Create" /\ ret[p].task.ID = 2
         /\ req[q].op = "Create" /\ pc[q] = "Lock"

\* C2: while the process serves, nextID is greater than every id a Create
\* has ever handed out, restarts and deleted tasks included.
C2_NextIDAboveEveryAssigned ==
    boot = "serving" => \A i \in assigned : nextID > i

\* C3: when a Create, Toggle or Delete is about to return success (and to
\* release the lock), the data file decodes to the in-memory task sequence.
C3_FileEqualsMemoryOnSuccess ==
    \A p \in Procs :
        ReturnsOK(p) =>
            /\ fs[dataPath].exists
            /\ DecodeOK(fs[dataPath].text)
            /\ Decode(fs[dataPath].text) = tasks

\* Create 1 succeeded, the save of Create 2 failed (task 2 stayed in
\* memory only), and now a Toggle returns success next to a waiting request.
C3_Witness ==
    /\ boot = "serving"
    /\ faults = 1
    /\ createdIds = <<1>>
    /\ Ids(tasks) = <<1, 2>>
    /\ \E p, q \in Procs :
         /\ p # q
         /\ ReturnsOK(p) /\ req[p].op = "Toggle"
         /\ pc[q] \in {"Lock", "RLockWait"}

\* C4: at every step of save, and after a failure or a crash at any of
\* them, the data file is absent (no save has completed) or is the complete
\* serialization of the tasks of the last completed save.
C4_DataFileAbsentOrComplete ==
    fs[dataPath] = IF lastSaved = <<>> THEN NoFile
                   ELSE File(Encode(lastSaved[1]))

\* The process was killed between creating the temp file and encoding: the
\* temp file is empty, the data file still holds the last save.
C4_Witness ==
    /\ boot = "crashed"
    /\ fs[tmpPath] = File(<<>>)
    /\ lastSaved # <<>>
    /\ Len(lastSaved[1]) = 2

\* C5: while a handler is inside the locked section of Create, Toggle or
\* Delete (in-memory change and save), no other handler is inside the locked
\* section of any operation.
C5_WritersExclude ==
    \A p, q \in Procs :
        (p # q /\ InWrite(p)) => (~InWrite(q) /\ ~InRead(q))

\* A Create is in the middle of its save while a List is blocked behind it.
C5_Witness ==
    \E p, q \in Procs :
        /\ InWrite(p) /\ pc[p] = "encode" /\ req[p].op = "Create"
        /\ pc[q] = "RLockWait"

Largest(ts) ==
    IF ts = <<>> THEN 0
    ELSE CHOOSE m \in {ts[i].ID : i \in 1..Len(ts)} :
             \A i \in 1..Len(ts) : ts[i].ID <= m

\* The index of the task with the id in ts (there is one).
Where(ts, id) == CHOOSE i \in 1..Len(ts) : ts[i].ID = id

\* Tasks with the ids 3, 7, 2, in that order.
Tasks372 ==
    << Task(3, <<"a">>, FALSE, 1), Task(7, <<"b">>, TRUE, 2),
       Task(2, <<"a", " ", "b">>, FALSE, 1) >>

\* C7: a store constructed over the data file holds exactly the task
\* sequence of the last successful save (same tasks, same order, same
\* fields) and nextID is the largest loaded id plus one, 1 for no tasks; an
\* absent file gives the empty store with nextID 1; ids 3, 7, 2 give 8.
C7_RoundTrip ==
    [][ /\ (boot # "serving" /\ boot' = "serving") =>
             IF lastSaved = <<>>
             THEN tasks' = <<>> /\ nextID' = 1
             ELSE tasks' = lastSaved[1] /\ nextID' = Largest(lastSaved[1]) + 1
        /\ Decode(Encode(Tasks372)) = Tasks372
        /\ LoadNextID(Decode(Encode(Tasks372))) = 8 ]_vars

\* A restarted store that has loaded the two saved tasks, which differ in
\* title, done flag and creation time.
C7_Witness ==
    /\ boot = "serving"
    /\ faults = 1
    /\ createdIds = <<>>
    /\ lastSaved = <<tasks>>
    /\ Ids(tasks) = <<1, 2>>
    /\ tasks[1].Done /\ ~tasks[2].Done
    /\ tasks[1].Title # tasks[2].Title
    /\ tasks[1].CreatedAt # tasks[2].CreatedAt
    /\ nextID = 3
    /\ \A p \in Procs : pc[p] = "idle"

\* title is raw without its leading and trailing spaces, and is not empty.
TrimmedOf(raw, title) ==
    /\ title # <<>>
    /\ title[1] # " "
    /\ title[Len(title)] # " "
    /\ \E i \in 0..Len(raw) :
         /\ title = SubSeq(raw, i + 1, i + Len(title))
         /\ \A k \in 1..Len(raw) : (k <= i \/ k > i + Len(title)) => raw[k] = " "

\* The step of Create that changes the store: the new task has the id
\* nextID had, the trimmed title and done = false; it is appended, nextID
\* grows by one and the tasks stored before are unchanged.
CreateStep ==
    \A p \in Procs :
        (pc[p] = "Create" /\ pc'[p] = "save") =>
            LET t == ret'[p].task
            IN  /\ t.ID = nextID
                /\ t.Done = FALSE
                /\ TrimmedOf(req[p].raw, t.Title)
                /\ tasks' = tasks \o <<t>>
                /\ nextID' = nextID + 1

\* A successful Create returns the task it appended; the first Create of a
\* fresh store returns id 1.
CreateReturn ==
    \A p \in Procs :
        (ReturnsOK(p) /\ req[p].op = "Create") =>
            /\ ret[p].task.ID = nextID - 1
            /\ ret[p].task = tasks[Len(tasks)]
            /\ (assigned = {} /\ faults = 0) => ret[p].task.ID = 1

ListAfterCreates ==
    \A p \in Procs :
        ( /\ pc[p] = "ret" /\ req[p].op = "List"
          /\ deleted = {}
          /\ createdIds # <<>> /\ createdIds[1] = 1
          /\ nextID = Len(createdIds) + 1 ) =>
            /\ Ids(ret[p].out) = createdIds
            /\ ret[p].out = tasks

ToggleStep ==
    \A p \in Procs :
        (pc[p] = "Toggle" /\ pc'[p] = "save") =>
            LET i == Where(tasks, req[p].id)
            IN  /\ tasks'[i].Done = ~tasks[i].Done
                /\ lastToggle'[1].n = 2 => tasks' = lastToggle[1].before

\* A successful Toggle returns the stored task, its done flag negated.
ToggleReturn ==
    \A p \in Procs :
        (ReturnsOK(p) /\ req[p].op = "Toggle") =>
            /\ lastToggle # <<>>
            /\ lastToggle[1].id = req[p].id
            /\ LET i == Where(tasks, req[p].id)
               IN  /\ ret[p].task = tasks[i]
                   /\ ret[p].task =
                        [lastToggle[1].before[i] EXCEPT !.Done = ~@]

\* C9: two Toggles of a task with no other change of the store in between
\* return it to its original done value: each returns the task with done
\* negated, and the sequence after both equals the sequence before.
C9_ToggleTwice ==
    /\ [][ToggleStep]_vars
    /\ []ToggleReturn

\* The second Toggle in a row of a task returns it, not done as at first,
\* in a store of two tasks.
C9_Witness ==
    \E p \in Procs :
        /\ ReturnsOK(p) /\ req[p].op = "Toggle"
        /\ lastToggle # <<>> /\ lastToggle[1].n = 2
        /\ Len(tasks) = 2
        /\ ~ret[p].task.Done

\* The step of Delete that changes the store removes exactly the task with
\* the id and keeps the others, unmodified, in their order.
DeleteStep ==
    \A p \in Procs :
        (pc[p] = "Delete" /\ pc'[p] = "save") =>
            LET i == Where(tasks, req[p].id)
            IN  /\ Len(tasks') = Len(tasks) - 1
                /\ \A j \in 1..Len(tasks') :
                     tasks'[j] = IF j < i THEN tasks[j] ELSE tasks[j + 1]

\* A Toggle or Delete of an id that Delete has removed fails with not found.
GoneStep ==
    \A p \in Procs :
        ( /\ pc[p] \in {"Toggle", "Delete"}
          /\ req[p].id \in deleted
          /\ pc'[p] # pc[p]
          /\ boot' = "serving" ) =>
            /\ pc'[p] = "ret"
            /\ ret'[p].err = ErrNotFound
            /\ tasks' = tasks

Blank(raw) == \A k \in 1..Len(raw) : raw[k] = " "

\* A Create with a blank title goes straight to its return with the
\* validation error, without asking for the lock, and that return leaves
\* the store and the files as they are.
BlankCreateStep ==
    \A p \in Procs :
        /\ ( /\ pc[p] = "idle" /\ pc'[p] # "idle"
             /\ req'[p].op = "Create" /\ Blank(req'[p].raw) ) =>
               /\ pc'[p] = "ret"
               /\ ret'[p] = [NoRet EXCEPT !.err = ErrTitle]
               /\ UNCHANGED <<tasks, nextID, fs, mutex>>
        /\ ( /\ pc[p] = "ret" /\ ret[p].err = ErrTitle
             /\ pc'[p] = "idle" /\ boot' = "serving" ) =>
               UNCHANGED <<tasks, nextID, fs, mutex, assigned, createdIds>>

\* C11: Create with an empty or all-space title fails with the validation
\* error and changes nothing: the task sequence, nextID and the files are
\* the same as before the call, and no id is consumed.
C11_BlankTitleChangesNothing ==
    /\ [][BlankCreateStep]_vars
    /\ [](\A p \in Procs :
            (req[p].op = "Create" /\ Blank(req[p].raw)) =>
                /\ pc[p] = "ret"
                /\ ret[p].err = ErrTitle
                /\ wowner # p)

\* A Create with the empty title is rejected in a store that holds task 1
\* in memory and on disk.
C11_Witness ==
    \E p \in Procs :
        /\ pc[p] = "ret" /\ req[p].op = "Create" /\ req[p].raw = <<>>
        /\ ret[p].err = ErrTitle
        /\ Ids(tasks) = <<1>> /\ nextID = 2
        /\ lastSaved = <<tasks>>

SaveSteps == {"save", "encode", "close", "rename"}

\* The handler p is about to return the error of a failed save.
SaveFailed(p) ==
    /\ pc[p] = "ret"
    /\ req[p].op \in Mutating
    /\ ret[p].err \notin {"", ErrTitle, ErrNotFound}

\* The step of save that fails, and the return that follows it, leave the
\* tasks and nextID as the operation has set them; List returns the tasks
\* that are in memory.
FailedSaveStep ==
    \A p \in Procs :
        /\ (pc[p] \in SaveSteps /\ pc'[p] = "ret" /\ ret'[p].err # "") =>
               /\ SaveFailed(p)'
               /\ ret'[p].task = ZeroTask
               /\ UNCHANGED <<tasks, nextID>>
        /\ (SaveFailed(p) /\ pc'[p] = "idle" /\ boot' = "serving") =>
               UNCHANGED <<tasks, nextID>>
        /\ (pc[p] = "List" /\ pc'[p] = "ret") => ret'[p].out = tasks

\* What is in memory when the save of p's operation has failed.
FailedSaveKeeps ==
    \A p \in Procs :
        SaveFailed(p) =>
            CASE req[p].op = "Create" ->
                   /\ tasks # <<>>
                   /\ tasks[Len(tasks)].ID = nextID - 1
                   /\ ~tasks[Len(tasks)].Done
                   /\ TrimmedOf(req[p].raw, tasks[Len(tasks)].Title)
              [] req[p].op = "Toggle" ->
                   /\ lastToggle # <<>> /\ lastToggle[1].id = req[p].id
                   /\ LET i == Where(tasks, req[p].id)
                      IN  tasks = [lastToggle[1].before EXCEPT
                                     ![i].Done = ~lastToggle[1].before[i].Done]
              [] req[p].op = "Delete" ->
                   /\ req[p].id \in deleted
                   /\ \A i \in 1..Len(tasks) : tasks[i].ID # req[p].id

\* C12: when the save of a mutating operation fails, the operation returns
\* an error and its in-memory effect stays: the task of a failed Create is
\* the last of the sequence (which List returns) and nextID was incremented,
\* a failed Toggle leaves the done flag flipped, a failed Delete leaves the
\* task removed.
C12_FailedSaveKeepsEffect ==
    /\ [][FailedSaveStep]_vars
    /\ []FailedSaveKeeps

\* List returns task 2, whose Create failed to save, after the successful
\* Create of task 1: the data file holds task 1 only.
C12_Witness ==
    \E p \in Procs :
        /\ pc[p] = "ret" /\ req[p].op = "List"
        /\ Ids(ret[p].out) = <<1, 2>>
        /\ createdIds = <<1>> /\ assigned = {1}
        /\ nextID = 3
        /\ lastSaved # <<>> /\ Ids(lastSaved[1]) = <<1>>
        /\ faults = 1

\* C13: the response status follows the kind of the error: 400 for an empty
\* title and for a malformed id, 404 for an unknown id, a server-error
\* status (5xx) for a failed save; so 400 on POST /api/tasks comes only with
\* invalid JSON or an empty title, and 404 on PATCH or DELETE of
\* /api/tasks/{id} only with an id that is not in the store.
C13_StatusByErrorKind ==
    \A p \in Procs :
        pc[p] = "ret" =>
            /\ ret[p].err \in {ErrTitle, "invalid task id"} => Status(p) = 400
            /\ ret[p].err = ErrNotFound => Status(p) = 404
            /\ SaveFailed(p) => Status(p) \in 500..599
            /\ ( /\ req[p].method = "POST" /\ req[p].path = TasksPath
                 /\ Status(p) = 400 ) =>
                   ret[p].err \in {ErrTitle, "invalid json"}
            /\ (req[p].op \in {"Toggle", "Delete"} /\ Status(p) = 404) =>
                   ret[p].err = ErrNotFound

\* The request of p is to /api/tasks with a method other than GET and POST,
\* or to /api/tasks/{seg} with a method other than PATCH and DELETE.
OtherMethod(p) ==
    \/ req[p].path = TasksPath /\ req[p].method \notin {"GET", "POST"}
    \/ /\ req[p].path = TaskPath /\ req[p].seg # <<>>
       /\ req[p].method \notin {"PATCH", "DELETE"}

\* The response to p is 405 with the methods of its path in Allow.
NotAllowed(p) ==
    /\ Status(p) = 405
    /\ Allow(p) = IF req[p].path = TasksPath THEN <<"GET", "POST">>
                  ELSE <<"PATCH", "DELETE">>

\* C14, as claimed: every request with another method, whatever the segment
\* after /api/tasks/ is, is answered with 405 and Allow.
C14_OtherMethodAlways405 ==
    \A p \in Procs : (pc[p] = "ret" /\ OtherMethod(p)) => NotAllowed(p)

\* A request that is refused before the store is called, and its return,
\* leave the store, the files and the lock as they are.
RefusedStep ==
    \A p \in Procs :
        (req'[p].op = "refused" \/ req[p].op = "refused") =>
            UNCHANGED <<tasks, nextID, fs, mutex>>

\* C14, amended: a request to /api/tasks with a method other than GET and
\* POST, and a request to /api/tasks/{id} with an integer id and a method
\* other than PATCH and DELETE, is answered with 405 and an Allow header
\* that lists the methods of the path; with an id that is no integer the
\* answer is 400 without Allow, whatever the method; none of these requests
\* changes the store.
C14_OtherMethod405IfInteger ==
    /\ [][RefusedStep]_vars
    /\ [](\A p \in Procs :
            (pc[p] = "ret" /\ OtherMethod(p)) =>
                IF req[p].path = TasksPath \/ AtoiOK(req[p].seg)
                THEN NotAllowed(p)
                ELSE Status(p) = 400 /\ Allow(p) = <<>>)

\* PUT /api/tasks/-1 is answered with 405 in a store that holds a task.
C14_Witness ==
    \E p \in Procs :
        /\ pc[p] = "ret" /\ OtherMethod(p)
        /\ req[p].method = "PUT" /\ req[p].seg = <<"-", "1">>
        /\ NotAllowed(p)
        /\ Len(tasks) = 1

\* The data file is there and does not decode.
Unparsable == fs[dataPath].exists /\ ~DecodeOK(fs[dataPath].text)

\* A start reaches the serving state only if no call of the load failed and
\* the data file is absent or decodes, and then with the decoded tasks; a
\* process in the fatal state does nothing more (the next step is a new
\* start).
LoadStep ==
    /\ (boot # "serving" /\ boot' = "serving") =>
           /\ faults' = faults
           /\ ~Unparsable
           /\ tasks' = IF fs[dataPath].exists
                       THEN Decode(fs[dataPath].text) ELSE <<>>
    /\ (boot # "serving" /\ (faults' # faults \/ Unparsable)) =>
           boot' \in {boot, "fatal"}
    /\ boot = "fatal" =>
           /\ UNCHANGED <<fs, mutex, pc, req, ret>>
           /\ boot' # "serving" => UNCHANGED <<tasks, nextID>>

\* C15: if the load at the start fails (the directory cannot be made, the
\* data file cannot be opened or does not decode), the process does not
\* reach the serving state: no request is handled outside the serving
\* state, and a process never serves over a data file that does not decode.
C15_FailedLoadNeverServes ==
    /\ [][LoadStep]_vars
    /\ [](boot # "serving" =>
            \A p \in Procs : pc[p] = "idle" /\ req[p] = NoReq)
    /\ [](Unparsable => boot # "serving")

\* The process has ended in log.Fatalf over a data file that was cut off
\* after its first task.
C15_Witness ==
    /\ boot = "fatal"
    /\ Unparsable
    /\ Len(fs[dataPath].text) = 2
    /\ tasks = <<>>

\* The handler p holds the lock or has asked for it.
HoldsOrWaits(p) == wowner = p \/ p \in readers \/ p \in rwait

\* C16: with fair scheduling and file operations that return, every
\* started List, Create, Toggle and Delete returns, whether it succeeds or
\* fails in the validation, in the search or in any step of save, and has
\* released the lock when it has returned; while an operation is under way
\* some handler can take a step, so the system does not deadlock.
C16_EveryOperationReturns ==
    /\ \A p \in Handlers : (pc[p] # "idle") ~> (pc[p] = "idle")
    /\ [](\A p \in Handlers : pc[p] = "idle" => ~HoldsOrWaits(p))
    /\ []((\E p \in Handlers : pc[p] # "idle") =>
            \E p \in Handlers : ENABLED Step(p))

\* A Delete waits for the lock while the save of a Create is about to fail
\* for the second time.
C16_Witness ==
    \E p, q \in Handlers :
        /\ pc[p] = "ret" /\ SaveFailed(p) /\ req[p].op = "Create"
        /\ faults = 2
        /\ pc[q] = "Lock" /\ req[q].op = "Delete"

\* List does not fail, and no step of a handler that runs List changes the
\* tasks, nextID or the files.
ListFrame ==
    \A p \in Procs :
        (req[p].op = "List" \/ req'[p].op = "List") =>
            /\ ret'[p].err = ""
            /\ UNCHANGED <<tasks, nextID, fs>>

\* A step that changes the tasks of the store leaves the held slice as it
\* was returned, and a step that changes an element of the held slice
\* leaves the store as it is.
SnapshotApart ==
    /\ (tasks' # tasks /\ held # <<>>) => held' = held
    /\ (held # <<>> /\ held' # <<>> /\ held'[1].seq # held[1].seq) =>
           UNCHANGED <<tasks, nextID, fs>>

\* C17: List never fails and changes neither the store nor the files, and
\* the sequence it returns is a snapshot of the tasks at that time, apart
\* from the store: a write to it does not change the store, and a later
\* Create, Toggle or Delete does not change it.
C17_ListSnapshot ==
    /\ [][ListFrame /\ SnapshotApart]_vars
    /\ [](\A p \in Procs :
            (pc[p] = "ret" /\ req[p].op = "List") =>
                ret[p].out = tasks /\ ret[p].err = "")

\* The held slice was returned by List with tasks 1 and 2; since then its
\* first element was overwritten, and task 1 was deleted from the store.
C17_Witness ==
    /\ held # <<>>
    /\ Len(held[1].seq) = 2
    /\ held[1].seq[1] = ZeroTask
    /\ held[1].seq[2].ID = 2
    /\ Ids(tasks) = <<2>>
    /\ deleted = {1}

\* The step of save that fails leaves the data file as it is and returns
\* the error; where the temp file was made by this save, it is gone.
FailedSaveRemovesTemp ==
    \A p \in Procs :
        (pc[p] \in SaveSteps /\ pc'[p] = "ret" /\ ret'[p].err # "") =>
            /\ fs'[dataPath] = fs[dataPath]
            /\ SaveFailed(p)'
            /\ pc[p] # "save" => fs'[tmpPath] = NoFile

\* C18, as claimed: when save fails at any step, the data file keeps its
\* content, the failure is returned, and no temp file of that save is left.
C18_FailedSaveLeavesNoTemp == [][FailedSaveRemovesTemp]_vars

\* The same, where the temp file is gone if its removal did not fail as
\* well, and is left otherwise; a save that could not create the temp file
\* leaves the files as they are.
FailedSaveStepFiles ==
    \A p \in Procs :
        (pc[p] \in SaveSteps /\ pc'[p] = "ret" /\ ret'[p].err # "") =>
            /\ fs'[dataPath] = fs[dataPath]
            /\ SaveFailed(p)'
            /\ IF pc[p] = "save" THEN fs' = fs
               ELSE IF faults' = faults + 1 THEN fs'[tmpPath] = NoFile
               ELSE fs'[tmpPath].exists

\* C18, amended: when save fails at any step, the data file keeps exactly
\* the content it had, the failure is returned to the caller, and the temp
\* file written by that save is removed unless the removal fails too; a
\* failed removal is not reported and leaves the temp file behind.
C18_FailedSaveKeepsDataFile == [][FailedSaveStepFiles]_vars

\* The rename of a save of two tasks has failed and the temp file was
\* removed; the data file holds the one task of the save before.
C18_Witness ==
    \E p \in Procs :
        /\ SaveFailed(p) /\ ret[p].err = "rename temp file"
        /\ Len(tasks) = 2
        /\ fs[tmpPath] = NoFile
        /\ lastSaved # <<>> /\ Len(lastSaved[1]) = 1
        /\ fs[dataPath] = File(Encode(lastSaved[1]))

\* Of all the steps of a Toggle, one changes the tasks, and it changes the
\* done flag of the task with the id and nothing else; none changes nextID.
ToggleFrame ==
    \A p \in Procs :
        (req[p].op = "Toggle" /\ boot' = "serving") =>
            /\ nextID' = nextID
            /\ Len(tasks') = Len(tasks)
            /\ \A i \in 1..Len(tasks) :
                 /\ tasks'[i].ID = tasks[i].ID
                 /\ tasks'[i].Title = tasks[i].Title
                 /\ tasks'[i].CreatedAt = tasks[i].CreatedAt
                 /\ tasks[i].ID # req[p].id => tasks'[i].Done = tasks[i].Done
            /\ tasks' # tasks => (pc[p] = "Toggle" /\ pc'[p] = "save")

\* A task that is stored before and after a step has the title and the
\* creation time it had.
FixedFields ==
    \A i \in 1..Len(tasks), j \in 1..Len(tasks') :
        tasks'[j].ID = tasks[i].ID =>
            /\ tasks'[j].Title = tasks[i].Title
            /\ tasks'[j].CreatedAt = tasks[i].CreatedAt

\* C19: Toggle(id) changes only the done flag of the task with the id: the
\* id, title and createdAt of every task, the done flag of every other
\* task, the order and the length of the sequence and nextID are the same
\* after it; no operation changes the id, title or createdAt of a stored
\* task.
C19_ToggleChangesDoneOnly == [][ToggleFrame /\ FixedFields]_vars

\* Toggle(2) returns task 2 done, next to task 1 which is done since
\* before, with an older creation time and another title.
C19_Witness ==
    \E p \in Procs :
        /\ ReturnsOK(p) /\ req[p].op = "Toggle" /\ req[p].id = 2
        /\ Ids(tasks) = <<1, 2>>
        /\ tasks[1].Done /\ tasks[2].Done
        /\ tasks[1].CreatedAt < tasks[2].CreatedAt
        /\ tasks[1].Title # tasks[2].Title
        /\ lastToggle # <<>> /\ lastToggle[1].before[1].Done

\* The handler p runs a Toggle or Delete of an id that no stored task has,
\* and is not past a save.
NotStored(p) ==
    /\ req[p].op \in {"Toggle", "Delete"}
    /\ \A i \in 1..Len(tasks) : tasks[i].ID # req[p].id
    /\ \/ pc[p] \in {"Lock", "LockWait", "Toggle", "Delete"}
       \/ pc[p] = "ret" /\ ret[p].err = ErrNotFound

\* Such a call goes from the search to its return with the not-found
\* error, without a step of save, and none of its steps changes the tasks,
\* nextID or a file.
NotFoundStep ==
    \A p \in Procs :
        (NotStored(p) /\ boot' = "serving") =>
            /\ UNCHANGED <<tasks, nextID, fs, faults, lastSaved>>
            /\ pc'[p] \notin SaveSteps
            /\ pc[p] \in {"Toggle", "Delete"} =>
                   /\ pc'[p] = "ret"
                   /\ ret'[p] = [NoRet EXCEPT !.err = ErrNotFound]

\* C20: a Toggle or Delete of an id that is not in the store returns the
\* not-found error without attempting a save: the tasks in memory, nextID
\* and the files, and with them any difference between memory and data
\* file that a failed save has left, are as before the call.
C20_NotFoundChangesNothing == [][NotFoundStep]_vars

\* Delete(0) returns not found in a store whose task 2 is in memory only,
\* after the save of its Create failed: the data file holds task 1.
C20_Witness ==
    \E p \in Procs :
        /\ pc[p] = "ret" /\ req[p].op = "Delete" /\ req[p].id = 0
        /\ ret[p].err = ErrNotFound
        /\ Ids(tasks) = <<1, 2>>
        /\ nextID = 3
        /\ fs[dataPath] = File(Encode(<<tasks[1]>>))

====
